---- MODULE Spec2Model ----
(***************************************************************************)
(* A model of rgit: the loose-object store, the tree builder, ls-tree,     *)
(* the pack parser with its REF-delta resolver, and clone with its ref     *)
(* population and checkout.                                                *)
(*                                                                         *)
(* Bytes are the naturals 0..255; strings are sequences of bytes (their    *)
(* ASCII codes), so that formatting, hex encoding and the splitting of a   *)
(* byte stream are computed as the code computes them.                     *)
(***************************************************************************)
EXTENDS Integers, Sequences, FiniteSets, TLC

VARIABLES
    mode,        \* which program runs: "clone", "local", "delta" or "parse"
    pc,          \* position of the running command
    refs,        \* Repo.refs: ref name -> 40-hex oid
    head,        \* Repo.head
    res_bytes,   \* get_objects: the body of the POST response
    rpos,        \* get_objects: the reader's position in res_bytes (1-based)
    todo,        \* get_objects: entries of the pack still to read
    objects,     \* Repo.objects / get_objects' map: 40-hex oid -> object
    printed,     \* lines written to stdout
    pool,        \* checkout_head: stack of <<path, tree id>>
    refsLeft,    \* populate_refs: refs the iteration has not visited yet
    files,       \* the file system: path -> bytes
    dirs,        \* the file system: the directories that exist
    scen,        \* the input of the run (server repository, working directory)
    hist,        \* the local commands run so far and what each returned
    dIn,         \* delta program: the base and the delta instructions
    dOut         \* delta program: what reconstruct_object returned

vars == <<mode, pc, refs, head, res_bytes, rpos, todo, objects, printed, pool,
          refsLeft, files, dirs, scen, hist, dIn, dOut>>

----------------------------------------------------------------------------
(* Bytes and strings *)

Byte == 0..255

RECURSIVE Flatten(_)
Flatten(ss) == IF ss = <<>> THEN <<>> ELSE Head(ss) \o Flatten(Tail(ss))

RECURSIVE Pow(_, _)
Pow(b, e) == IF e = 0 THEN 1 ELSE b * Pow(b, e - 1)

\* format!("{}", n) for an unsigned integer: its decimal digits in ASCII.
RECURSIVE Dec(_)
Dec(n) == IF n < 10 THEN <<48 + n>> ELSE Dec(n \div 10) \o <<48 + (n % 10)>>

\* format!("{:o}", n): the octal digits in ASCII, no leading zero.
RECURSIVE Oct(_)
Oct(n) == IF n < 8 THEN <<48 + n>> ELSE Oct(n \div 8) \o <<48 + (n % 8)>>

HexDigit(n) == IF n < 10 THEN 48 + n ELSE 87 + n

\* hex::encode: two lowercase hex digits per byte.
Hex(bs) == [i \in 1..(2 * Len(bs)) |->
              LET b == bs[(i + 1) \div 2]
              IN  IF i % 2 = 1 THEN HexDigit(b \div 16) ELSE HexDigit(b % 16)]

\* The first index of byte b in s at or after position from, 0 when absent.
IndexFrom(s, b, from) ==
    LET hits == {i \in from..Len(s) : s[i] = b}
    IN  IF hits = {} THEN 0
        ELSE CHOOSE i \in hits : \A j \in hits : i <= j

\* str::from_utf8(..).is_ok(): well-formed UTF-8 (lead byte, then the
\* continuation bytes it announces).
RECURSIVE IsUtf8(_, _)
IsUtf8(s, i) ==
    IF i > Len(s) THEN TRUE
    ELSE LET b == s[i]
             n == IF b < 128 THEN 0
                  ELSE IF b >= 194 /\ b <= 223 THEN 1
                  ELSE IF b >= 224 /\ b <= 239 THEN 2
                  ELSE IF b >= 240 /\ b <= 244 THEN 3
                  ELSE 4
         IN  /\ n < 4
             /\ i + n <= Len(s)
             /\ \A k \in 1..n : s[i + k] >= 128 /\ s[i + k] <= 191
             /\ (b = 224 => s[i + 1] >= 160)
             /\ (b = 237 => s[i + 1] <= 159)
             /\ (b = 240 => s[i + 1] >= 144)
             /\ (b = 244 => s[i + 1] <= 143)
             /\ IsUtf8(s, i + n + 1)

----------------------------------------------------------------------------
(* Hasher and codec *)

OidLen == 20

\* Display for GitObjectType / the obj_type string of make_git_object.
TypeName(t) ==
    CASE t = "blob"   -> <<98, 108, 111, 98>>
      [] t = "commit" -> <<99, 111, 109, 109, 105, 116>>
      [] t = "tag"    -> <<116, 97, 103>>
      [] t = "tree"   -> <<116, 114, 101, 101>>

\* format!("{} {}\0", object_type, size) followed by the payload.
Wrap(t, content) == TypeName(t) \o <<32>> \o Dec(Len(content)) \o <<0>> \o content

\* <<the polynomial checksum of s[lo..hi] at p, p^(hi-lo+1)>> modulo 32749.
RECURSIVE Poly(_, _, _, _)
Poly(s, lo, hi, p) ==
    IF lo > hi THEN <<0, 1>>
    ELSE IF lo = hi THEN <<s[lo] + 1, p>>
    ELSE LET mid == (lo + hi) \div 2
             l   == Poly(s, lo, mid, p)
             r   == Poly(s, mid + 1, hi, p)
         IN  <<(l[1] * r[2] + r[1]) % 32749, (l[2] * r[2]) % 32749>>

\* sha1::Sha1: a deterministic 20-byte digest of the bytes.  The digest of
\* the sha1 crate is replaced by five polynomial checksums modulo 32749,
\* each spread over four bytes; it is collision-free on the objects of
\* this model.
Sha1(s) ==
    LET sums == [j \in 0..4 |-> Poly(s, 1, Len(s), 256 + j)[1]]
    IN  [k \in 1..OidLen |->
            LET v == sums[(k - 1) \div 4]
                r == (k - 1) % 4
            IN  CASE r = 0 -> v % 256
                  [] r = 1 -> v \div 128
                  [] r = 2 -> (v \div 16) % 256
                  [] r = 3 -> (7 * v + 3) % 256]

\* Adler-32 of the data, big-endian, as a zlib stream ends with it.
RECURSIVE ByteSum(_, _, _)
ByteSum(d, lo, hi) ==
    IF lo > hi THEN 0
    ELSE IF lo = hi THEN d[lo]
    ELSE ByteSum(d, lo, (lo + hi) \div 2) + ByteSum(d, (lo + hi) \div 2 + 1, hi)
RECURSIVE WeightedSum(_, _, _)
WeightedSum(d, lo, hi) ==
    IF lo > hi THEN 0
    ELSE IF lo = hi THEN ((Len(d) - lo + 1) * d[lo]) % 65521
    ELSE (WeightedSum(d, lo, (lo + hi) \div 2)
          + WeightedSum(d, (lo + hi) \div 2 + 1, hi)) % 65521
Adler32(d) ==
    LET a == (1 + ByteSum(d, 1, Len(d))) % 65521
        b == (Len(d) + WeightedSum(d, 1, Len(d))) % 65521
    IN  <<b \div 256, b % 256, a \div 256, a % 256>>

\* The FLG byte of a zlib header for a compression level.
ZlibFlg(level) ==
    CASE level = "fast"    -> 1
      [] level = "default" -> 156
      [] level = "best"    -> 218

\* flate2::write::ZlibEncoder: a zlib stream of the data.  The stream is a
\* function of the level and the data alone; the model writes the data as
\* one stored block (header 78 xx, block header 01, LEN, NLEN, data,
\* Adler-32).
ZlibEncode(level, d) ==
    <<120, ZlibFlg(level), 1,
      Len(d) % 256, Len(d) \div 256,
      255 - (Len(d) % 256), 255 - (Len(d) \div 256)>>
    \o d \o Adler32(d)

\* The length of the zlib stream that starts at position p of s, and the
\* data it holds (flate2's decoders).  A stream cut short yields what is
\* there.
ZlibDataLen(s, p) ==
    IF p + 4 > Len(s) THEN 0 ELSE s[p + 3] + 256 * s[p + 4]
ZlibData(s, p) ==
    LET n    == ZlibDataLen(s, p)
        from == p + 7
        to   == IF from + n - 1 > Len(s) THEN Len(s) ELSE from + n - 1
    IN  SubSeq(s, from, to)
ZlibEnd(s, p) ==
    LET e == p + 7 + ZlibDataLen(s, p) + 4
    IN  IF e > Len(s) + 1 THEN Len(s) + 1 ELSE e

\* GitObject::new: the object with its id, the hex SHA-1 of header+content.
GitObjectNew(content, object_type) ==
    [id          |-> Hex(Sha1(Wrap(object_type, content))),
     content     |-> content,
     size        |-> Len(content),
     object_type |-> object_type]

----------------------------------------------------------------------------
(* Variable-length sizes *)

\* parse_size_encoding: the bytes from position pos, seven bits each, the
\* first shifted by 4; a failed read leaves the byte 0 and ends the loop.
\* The shift of the c-th byte, `4 + 7 * c`, beside a shift that starts at 0.
ShiftFromZero(c) == 7 * c
ShiftOf(c) == 4 + 7 * c

RECURSIVE SizeLoop(_, _, _, _)
SizeLoop(s, pos, object_size, c) ==
    IF pos > Len(s)
    THEN [size |-> object_size, pos |-> pos]
    ELSE LET first_byte   == s[pos]
             msb          == first_byte \div 128
             current_byte == first_byte % 128
             size2        == current_byte * Pow(2, ShiftOf(c)) + object_size
         IN  IF msb # 0
             THEN SizeLoop(s, pos + 1, size2, c + 1)
             ELSE [size |-> size2, pos |-> pos + 1]

parse_size_encoding(s, pos, base_size) == SizeLoop(s, pos, base_size, 0)

\* parse_object_header: the type in bits 6-4 and the size of a pack entry.
parse_object_header(s, pos) ==
    LET first_byte == IF pos > Len(s) THEN 0 ELSE s[pos]
        next       == IF pos > Len(s) THEN pos ELSE pos + 1
        obj_type   == (first_byte \div 16) % 8
        low        == first_byte % 16
        msb        == first_byte \div 128
    IN  IF msb = 1
        THEN LET r == parse_size_encoding(s, next, low)
             IN  [type |-> obj_type, size |-> r.size, pos |-> r.pos]
        ELSE [type |-> obj_type, size |-> low, pos |-> next]

----------------------------------------------------------------------------
(* Delta resolver *)

Bit(n, i) == (n \div Pow(2, i)) % 2

\* The bytes a copy instruction's bitmask selects, read in order from pos:
\* the value they assemble (little-endian), the position after them, and
\* whether a read ran past the end (a panic of the expect).
RECURSIVE MaskedBytes(_, _, _, _, _, _)
MaskedBytes(s, pos, mask, i, n, acc) ==
    IF i = n THEN [val |-> acc, pos |-> pos, ok |-> TRUE]
    ELSE IF Bit(mask, i) = 0
    THEN MaskedBytes(s, pos, mask, i + 1, n, acc)
    ELSE IF pos > Len(s) THEN [val |-> acc, pos |-> pos, ok |-> FALSE]
    ELSE MaskedBytes(s, pos + 1, mask, i + 1, n, acc + s[pos] * Pow(256, i))

\* A copy of size 0 copies 0x10000 bytes.
CopySizeAsRead(val) == val
CopySize(val) == IF val = 0 THEN 65536 ELSE val

\* The instruction loop of reconstruct_object: target_object built so far.
RECURSIVE DeltaLoop(_, _, _, _)
DeltaLoop(d, pos, base, target) ==
    IF pos > Len(d) THEN [ok |-> TRUE, target |-> target]
    ELSE LET byte == d[pos]
         IN  IF byte \div 128 = 1
             THEN LET o == MaskedBytes(d, pos + 1, byte % 16, 0, 4, 0)
                      z == MaskedBytes(d, o.pos, (byte \div 16) % 8, 0, 3, 0)
                      size == CopySize(z.val)
                  IN  IF ~o.ok \/ ~z.ok \/ o.val + size > Len(base)
                      THEN [ok |-> FALSE, target |-> target]
                      ELSE DeltaLoop(d, z.pos, base,
                               target \o SubSeq(base, o.val + 1, o.val + size))
             ELSE LET size == byte % 128
                  IN  IF pos + size > Len(d)
                      THEN [ok |-> FALSE, target |-> target]
                      ELSE DeltaLoop(d, pos + 1 + size, base,
                               target \o SubSeq(d, pos + 1, pos + size))

\* reconstruct_object: the two sizes are read and dropped, the instructions
\* are executed, and the target is wrapped as an object of the base's type.
\* ok = FALSE is a panic (an expect on a short read, a slice out of range).
reconstruct_object(delta_object, base_object) ==
    LET b == parse_size_encoding(delta_object, 1, 0)
        t == parse_size_encoding(delta_object, b.pos, 0)
        r == DeltaLoop(delta_object, t.pos, base_object.content, <<>>)
    IN  IF r.ok
        THEN [ok |-> TRUE,
              object |-> GitObjectNew(r.target, base_object.object_type)]
        ELSE [ok |-> FALSE]

----------------------------------------------------------------------------
(* String literals of the source, as bytes *)

S_HEAD         == <<72, 69, 65, 68>>   \* "HEAD"
S_refs_pull    == <<114, 101, 102, 115, 47, 112, 117, 108, 108>>   \* "refs/pull"
S_refs_tags    == <<114, 101, 102, 115, 47, 116, 97, 103, 115>>   \* "refs/tags"
S_refs_remotes == <<114, 101, 102, 115, 47, 114, 101, 109, 111, 116, 101, 115>>   \* "refs/remotes"
S_ref_colon    == <<114, 101, 102, 58, 32>>   \* "ref: "
S_git_HEAD     == <<47, 46, 103, 105, 116, 47, 72, 69, 65, 68>>   \* "/.git/HEAD"
S_git          == <<47, 46, 103, 105, 116, 47>>   \* "/.git/"
S_git_refs     == <<47, 46, 103, 105, 116, 47, 114, 101, 102, 115>>   \* "/.git/refs"
S_git_objects  == <<47, 46, 103, 105, 116, 47, 111, 98, 106, 101, 99, 116, 115>>   \* "/.git/objects"
S_slash_HEAD   == <<47, 72, 69, 65, 68>>   \* "/HEAD"
S_want_sp      == <<119, 97, 110, 116, 32>>   \* "want "
S_flush_done   == <<10, 48, 48, 48, 48, 48, 48, 48, 57, 100, 111, 110, 101, 10>>   \* "\n00000009done\n"
S_done_lf      == <<100, 111, 110, 101, 10>>   \* "done\n"
S_tree_sp      == <<116, 114, 101, 101, 32>>   \* "tree "
S_40000        == <<52, 48, 48, 48, 48>>   \* "40000"
S_not_found    == <<98, 97, 115, 101, 32, 111, 98, 106, 101, 99, 116, 32, 110, 111, 116, 32, 102, 111, 117, 110, 100>>   \* "base object not found"

Put(m, k, v) == (k :> v) @@ m

StartsWith(s, p) == Len(s) >= Len(p) /\ SubSeq(s, 1, Len(p)) = p

\* The last index of byte b in s, 0 when absent.
LastIndex(s, b, i) ==
    LET hits == {k \in 1..i : s[k] = b}
    IN  IF hits = {} THEN 0
        ELSE CHOOSE k \in hits : \A j \in hits : j <= k

\* Path::parent of a path with at least one '/'.
Parent(p) == SubSeq(p, 1, LastIndex(p, 47, Len(p)) - 1)

\* The directories fs::create_dir_all(p) makes exist: p and its ancestors.
RECURSIVE Ancestors(_)
Ancestors(p) ==
    IF LastIndex(p, 47, Len(p)) = 0 THEN {p}
    ELSE {p} \cup Ancestors(Parent(p))

\* fs::write(path, ..) succeeds when the parent directory exists and the
\* path is not itself a directory.
CanWrite(ds, path) == Parent(path) \in ds /\ path \notin ds

\* str::split_once(b): the parts before and after the first b.
SplitOnce(s, b) ==
    LET k == IndexFrom(s, b, 1)
    IN  IF k = 0 THEN [found |-> FALSE, left |-> s, right |-> <<>>]
        ELSE [found |-> TRUE, left |-> SubSeq(s, 1, k - 1),
              right |-> SubSeq(s, k + 1, Len(s))]

\* str::replace('\0', "").
Remove0(s) == SelectSeq(s, LAMBDA b : b # 0)

----------------------------------------------------------------------------
(* Tree decoder of checkout *)

\* BufRead::read_until(b'\0', ..): the bytes from pos through the first
\* 0x00, or to the end of the content.
ReadUntil0(s, pos) ==
    LET z == IndexFrom(s, 0, pos)
    IN  IF z = 0 THEN [bytes |-> SubSeq(s, pos, Len(s)), pos |-> Len(s) + 1]
        ELSE [bytes |-> SubSeq(s, pos, z), pos |-> z + 1]

\* The inner loop of parse_tree_object: while bytes holds at most 20 bytes,
\* the next part is appended.
RECURSIVE FillPast20(_, _, _)
FillPast20(s, pos, bytes) ==
    IF Len(bytes) > OidLen THEN [bytes |-> bytes, pos |-> pos]
    ELSE LET n == ReadUntil0(s, pos)
         IN  IF Len(n.bytes) = 0 THEN [bytes |-> bytes, pos |-> pos]
             ELSE FillPast20(s, n.pos, bytes \o n.bytes)

TreeEntry(m, n, sha) == [mode |-> m, name |-> n, sha |-> sha]

\* The loop of parse_tree_object; ok = FALSE is a panic (an unwrap, a slice
\* or an index out of range).
RECURSIVE TreeLoop(_, _, _, _)
TreeLoop(s, pos, i, result) ==
    LET rd == ReadUntil0(s, pos)
        l  == Len(rd.bytes)
        bytes0 == IF l > OidLen THEN SubSeq(rd.bytes, 1, l - 1) ELSE rd.bytes
    IN  IF l = 0 THEN [ok |-> TRUE, entries |-> result]
        ELSE IF i = 0
        THEN LET sp == SplitOnce(bytes0, 32)
             IN  IF ~IsUtf8(bytes0, 1) \/ ~sp.found
                 THEN [ok |-> FALSE, entries |-> result]
                 ELSE TreeLoop(s, rd.pos, 1,
                          <<TreeEntry(sp.left, Remove0(sp.right), <<>>)>>)
        ELSE LET f     == FillPast20(s, rd.pos, bytes0)
                 bytes == f.bytes
                 rest  == SubSeq(bytes, OidLen + 1, Len(bytes))
                 sp    == SplitOnce(rest, 32)
                 res1  == [result EXCEPT ![i].sha = Hex(SubSeq(bytes, 1, OidLen))]
             IN  IF Len(bytes) < OidLen \/ i > Len(result) \/ ~IsUtf8(rest, 1)
                 THEN [ok |-> FALSE, entries |-> result]
                 ELSE TreeLoop(s, f.pos, i + 1,
                          IF sp.found
                          THEN Append(res1,
                                   TreeEntry(sp.left, Remove0(sp.right), <<>>))
                          ELSE res1)

parse_tree_object(content) == TreeLoop(content, 1, 0, <<>>)

----------------------------------------------------------------------------
(* Deltas as a packer writes them: the input of reconstruct_object *)

\* A size in the little-endian continuation form, seven bits per byte.
RECURSIVE EncVarint(_)
EncVarint(n) ==
    IF n < 128 THEN <<n>> ELSE <<128 + (n % 128)>> \o EncVarint(n \div 128)

\* The bitmask naming the bytes in present, and those bytes of val.
RECURSIVE MaskOf(_)
MaskOf(present) ==
    IF present = {} THEN 0
    ELSE LET i == CHOOSE x \in present : TRUE
         IN  Pow(2, i) + MaskOf(present \ {i})
RECURSIVE EncMasked(_, _, _, _)
EncMasked(val, present, i, n) ==
    IF i = n THEN <<>>
    ELSE (IF i \in present THEN <<(val \div Pow(256, i)) % 256>> ELSE <<>>)
         \o EncMasked(val, present, i + 1, n)

Copy(off, size, obytes, sbytes) ==
    [op |-> "copy", off |-> off, size |-> size,
     obytes |-> obytes, sbytes |-> sbytes]
Insert(data) == [op |-> "insert", data |-> data]

\* The bytes of one instruction.  A copy of 0x10000 bytes whose size bytes
\* are all absent or zero is written with the size 0.
EncodeInstr(i) ==
    IF i.op = "copy"
    THEN <<128 + MaskOf(i.obytes) + 16 * MaskOf(i.sbytes)>>
         \o EncMasked(i.off, i.obytes, 0, 4)
         \o EncMasked(i.size, i.sbytes, 0, 3)
    ELSE <<Len(i.data)>> \o i.data

\* What executing the instructions in order on base B yields.
RECURSIVE Target(_, _)
Target(B, instrs) ==
    IF instrs = <<>> THEN <<>>
    ELSE LET i == Head(instrs)
         IN  (IF i.op = "copy" THEN SubSeq(B, i.off + 1, i.off + i.size)
              ELSE i.data)
             \o Target(B, Tail(instrs))

EncodeDelta(B, instrs) ==
    EncVarint(Len(B)) \o EncVarint(Len(Target(B, instrs)))
    \o Flatten([k \in 1..Len(instrs) |-> EncodeInstr(instrs[k])])

----------------------------------------------------------------------------
(* The server: repositories, ref advertisements and packs *)

M_100644 == <<49, 48, 48, 54, 52, 52>>   \* "100644"
M_100755 == <<49, 48, 48, 55, 53, 53>>   \* "100755"
N_a == <<97>>   \* "a"
N_b == <<98>>   \* "b"
N_c == <<99>>   \* "c"
N_d == <<100>>   \* "d"
N_f == <<102>>   \* "f"
N_x == <<120>>   \* "x"
R_main   == <<114, 101, 102, 115, 47, 104, 101, 97, 100, 115, 47, 109, 97, 105, 110>>   \* "refs/heads/main"
R_dev    == <<114, 101, 102, 115, 47, 104, 101, 97, 100, 115, 47, 100, 101, 118>>   \* "refs/heads/dev"
R_remote == <<114, 101, 102, 115, 47, 114, 101, 109, 111, 116, 101, 115, 47, 111, 114, 105, 103, 105, 110, 47, 109, 97, 105, 110>>   \* "refs/remotes/origin/main"
R_tag    == <<114, 101, 102, 115, 47, 116, 97, 103, 115, 47, 118, 49>>   \* "refs/tags/v1"
R_pull   == <<114, 101, 102, 115, 47, 112, 117, 108, 108, 47, 49, 47, 104, 101, 97, 100>>   \* "refs/pull/1/head"

Oid(t, content) == Sha1(Wrap(t, content))

\* A tree payload: mode, space, name, 0x00 and the 20 raw bytes of the oid,
\* for each entry in name order.
TreeBytes(entries) ==
    Flatten([k \in 1..Len(entries) |->
        entries[k].mode \o <<32>> \o entries[k].name \o <<0>> \o entries[k].sha])

\* A commit payload: "tree <hex>\n", an empty line and a message.
CommitBytes(tree_oid, msg) ==
    S_tree_sp \o Hex(tree_oid) \o <<10, 10>> \o msg \o <<10>>

Blob_A == <<65, 49, 51, 55, 50, 10>>   \* "A1372\n"
Blob_B == Blob_A \o <<88>>
Blob_D == Blob_B \o <<89>>
Blob_X == <<90, 10>>   \* "Z\n"
Tree_S == TreeBytes(<<TreeEntry(M_100644, N_f, Oid("blob", Blob_B))>>)
Tree_T == TreeBytes(<<TreeEntry(M_100644, N_a, Oid("blob", Blob_A)),
                      TreeEntry(S_40000, N_d, Oid("tree", Tree_S)),
                      TreeEntry(M_100755, N_x, Oid("blob", Blob_B))>>)
Tree_T1 == TreeBytes(<<TreeEntry(M_100644, N_a, Oid("blob", Blob_A))>>)
Tree_T3 == TreeBytes(<<TreeEntry(M_100644, N_a, Oid("blob", Blob_A)),
                       TreeEntry(M_100644, N_b, Oid("blob", Blob_B)),
                       TreeEntry(M_100644, N_c, Oid("blob", Blob_D))>>)
Commit_C  == CommitBytes(Oid("tree", Tree_T), <<109>>)
Commit_C1 == CommitBytes(Oid("tree", Tree_T1), <<109, 49>>)
Commit_C2 == CommitBytes(Oid("tree", Tree_T1), <<109, 50>>)
Commit_C3 == CommitBytes(Oid("tree", Tree_T3), <<109>>)

ServerObject ==
    [A  |-> [type |-> "blob",   content |-> Blob_A],
     B  |-> [type |-> "blob",   content |-> Blob_B],
     D  |-> [type |-> "blob",   content |-> Blob_D],
     X  |-> [type |-> "blob",   content |-> Blob_X],
     S  |-> [type |-> "tree",   content |-> Tree_S],
     T  |-> [type |-> "tree",   content |-> Tree_T],
     T1 |-> [type |-> "tree",   content |-> Tree_T1],
     T3 |-> [type |-> "tree",   content |-> Tree_T3],
     C  |-> [type |-> "commit", content |-> Commit_C],
     C1 |-> [type |-> "commit", content |-> Commit_C1],
     C2 |-> [type |-> "commit", content |-> Commit_C2],
     C3 |-> [type |-> "commit", content |-> Commit_C3]]

ServerOid == [n \in DOMAIN ServerObject |->
                 Oid(ServerObject[n].type, ServerObject[n].content)]
ServerId == [n \in DOMAIN ServerObject |-> Hex(ServerOid[n])]

\* The objects of each repository, in the order a packer lists them.
PackNames(repo) ==
    CASE repo = "tree"     -> <<"C", "T", "S", "A", "B">>
      [] repo = "branches" -> <<"C1", "T1", "A", "C2">>
      [] repo = "chain"    -> <<"C3", "T3", "A", "B", "D">>

HeadCommit(repo) ==
    CASE repo = "tree" -> "C" [] repo = "branches" -> "C1" [] repo = "chain" -> "C3"

\* The objects a commit reaches: its tree, the sub-trees and the blobs.
Reach(commit) ==
    CASE commit = "C"  -> {"C", "T", "S", "A", "B"}
      [] commit = "C1" -> {"C1", "T1", "A"}
      [] commit = "C2" -> {"C2", "T1", "A"}
      [] commit = "C3" -> {"C3", "T3", "A", "B", "D"}

\* The REF-delta entries of a pack: entry -> its base and its instructions.
DeltaPlan(deltify) ==
    CASE deltify = "none" -> <<>>
      [] deltify = "BonA" ->
           [B |-> [base |-> "A",
                   instrs |-> <<Copy(0, 6, {}, {0}), Insert(<<88>>)>>]]
      [] deltify = "missing" ->
           [B |-> [base |-> "X",
                   instrs |-> <<Insert(<<65, 49, 51, 55, 50>>),
                                Copy(1, 1, {0}, {0}), Insert(<<88>>)>>]]
      [] deltify = "C2onC1" ->
           [C2 |-> [base |-> "C1",
                    instrs |-> <<Copy(0, 48, {}, {0}), Insert(<<50, 10>>)>>]]
      [] deltify = "chain" ->
           [B |-> [base |-> "A",
                   instrs |-> <<Copy(0, 6, {}, {0}), Insert(<<88>>)>>],
            D |-> [base |-> "B",
                   instrs |-> <<Copy(0, 7, {0}, {0}), Insert(<<89>>)>>]]

TypeCode(t) ==
    CASE t = "commit" -> 1 [] t = "tree" -> 2 [] t = "blob" -> 3 [] t = "tag" -> 4

\* The header of a pack entry: type and the low four bits of the size in
\* the first byte, the rest of the size seven bits per byte.
EncEntryHeader(type, size) ==
    IF size < 16 THEN <<16 * type + size>>
    ELSE <<128 + 16 * type + (size % 16)>> \o EncVarint(size \div 16)

\* One entry of the pack, undeltified or as a REF-delta.
EncEntry(n, plan) ==
    IF n \in DOMAIN plan
    THEN LET d == EncodeDelta(ServerObject[plan[n].base].content, plan[n].instrs)
         IN  EncEntryHeader(7, Len(d)) \o ServerOid[plan[n].base]
             \o ZlibEncode("default", d)
    ELSE EncEntryHeader(TypeCode(ServerObject[n].type),
                        Len(ServerObject[n].content))
         \o ZlibEncode("default", ServerObject[n].content)

BE32(n) == <<0, (n \div 65536) % 256, (n \div 256) % 256, n % 256>>

\* The distance of an OFS-delta to its base: big-endian, seven bits per
\* byte, each byte but the last with the high bit set and one subtracted
\* from the higher part.
RECURSIVE EncOfs(_, _)
EncOfs(d, tail) ==
    IF d = 0 THEN tail
    ELSE EncOfs((d - 1) \div 128, <<128 + ((d - 1) % 128)>> \o tail)
EncOffset(d) == EncOfs(d \div 128, <<d % 128>>)

\* A REF-delta entry e rewritten as an OFS-delta (type 6): the header with
\* the other type code, the distance back to the base's entry in place of
\* the base's oid, the same deflated delta.
OfsEntry(e, distance) ==
    LET hl == CHOOSE i \in 1..Len(e) :
                  e[i] < 128 /\ \A j \in 1..(i - 1) : e[j] >= 128
    IN  <<e[1] - 16>> \o SubSeq(e, 2, hl) \o EncOffset(distance)
        \o SubSeq(e, hl + OidLen + 1, Len(e))

\* The distance from the entry at k back to the entry of its base.
OfsDistance(s, plain, k) ==
    LET j == CHOOSE i \in 1..Len(s.order) :
                 s.order[i] = DeltaPlan(s.deltify)[s.order[k]].base
    IN  Len(Flatten([i \in 1..(k - j) |-> plain[j + i - 1]]))

\* The entries plain of a pack as the server of scenario s sends them.
WithOfs(s, plain) ==
    [k \in 1..Len(s.order) |->
        IF s.fault = "ofs" /\ s.order[k] \in DOMAIN DeltaPlan(s.deltify)
        THEN OfsEntry(plain[k], OfsDistance(s, plain, k))
        ELSE plain[k]]

\* The entries of the pack of scenario s, in order.
PackEntries(s) ==
    WithOfs(s, [k \in 1..Len(s.order) |->
                   EncEntry(s.order[k], DeltaPlan(s.deltify))])

\* The number of bytes of the response that arrive, of total sent, the last
\* entry being last bytes long: all of them, or the stream ends inside the
\* last entry: in its deflated payload, after the first byte of its header,
\* or ten bytes into its base oid.
Arrives(fault, last, total) ==
    CASE fault = "cut_payload" -> total - OidLen - 6
      [] fault = "cut_header"  -> total - OidLen - last + 1
      [] fault = "cut_base"    -> total - OidLen - last + 11
      [] OTHER                 -> total

\* The pack: signature, version 2, the count, the entries.  A faulty server
\* sends another signature.
PackBytes(fault, entries) ==
    (IF fault = "signature" THEN <<74, 85, 78, 75>>
                            ELSE <<80, 65, 67, 75>>)   \* "PACK"
    \o BE32(2) \o BE32(Len(entries)) \o Flatten(entries)

\* The acknowledgement "0008NAK\n", the pack and its trailer.
Framed(pack) == <<48, 48, 48, 56, 78, 65, 75, 10>> \o pack \o Sha1(pack)

\* The first bytes of full that arrive before the connection ends.
Received(fault, last, full) == SubSeq(full, 1, Arrives(fault, last, Len(full)))

Delivered(fault, entries) ==
    Received(fault, Len(entries[Len(entries)]), Framed(PackBytes(fault, entries)))

\* The body of the POST response as the client reads it.
ServerResponse(s) == Delivered(s.fault, PackEntries(s))

\* The ref advertisement: ref name -> 40-hex oid.
Advertisement(s) ==
    LET h     == ServerId[HeadCommit(s.repo)]
        basic == (S_HEAD :> h) @@ (R_main :> h)
    IN  CASE s.ad = "basic"  -> basic
          [] s.ad = "twin"   -> basic @@ (R_dev :> h)
          [] s.ad = "remote" -> basic @@ (R_remote :> h)
          [] s.ad = "tags"   -> basic @@ (R_tag :> h) @@ (R_pull :> h)
          [] s.ad = "dev2"   -> basic @@ (R_dev :> ServerId["C2"])

Orders(names) ==
    {[i \in 1..Len(names) |-> names[p[i]]] : p \in Permutations(1..Len(names))}

\* Packs of a faulty server or a broken connection, for repository "tree":
\* a wrong signature, a stream cut inside the last entry, an OFS-delta.
FaultScenarios ==
    {[repo |-> "tree", deltify |-> x[1], order |-> x[2], ad |-> "basic",
      fault |-> x[3]] :
        x \in {<<"none", <<"C", "T", "S", "A", "B">>, "signature">>,
               <<"none", <<"C", "T", "S", "A", "B">>, "cut_payload">>,
               <<"BonA", <<"C", "T", "S", "A", "B">>, "cut_payload">>,
               <<"none", <<"T", "S", "A", "B", "C">>, "cut_header">>,
               <<"BonA", <<"C", "T", "S", "A", "B">>, "cut_base">>,
               <<"BonA", <<"C", "T", "S", "A", "B">>, "ofs">>,
               <<"BonA", <<"A", "B", "C", "T", "S">>, "ofs">>,
               <<"BonA", <<"A", "C", "B", "T", "S">>, "ofs">>}}

Scenarios ==
    {[repo |-> "tree", deltify |-> d, order |-> o, ad |-> "basic",
      fault |-> "none"] :
        d \in {"none", "BonA", "missing"}, o \in Orders(PackNames("tree"))}
    \cup {[repo |-> "tree", deltify |-> "none", order |-> PackNames("tree"),
           ad |-> a, fault |-> "none"] : a \in {"twin", "remote", "tags"}}
    \cup {[repo |-> "branches", deltify |-> d, order |-> o, ad |-> "dev2",
           fault |-> "none"] :
        d \in {"none", "C2onC1"}, o \in Orders(PackNames("branches"))}
    \cup {[repo |-> "chain", deltify |-> "chain", order |-> o, ad |-> "basic",
           fault |-> "none"] :
        o \in Orders(PackNames("chain"))}
    \cup FaultScenarios

----------------------------------------------------------------------------
(* The file system and the loose-object store *)

\* "<object_dir>/<first 2 hex>" and "<object_dir>/<first 2 hex>/<38 hex>".
ObjectDir(object_dir, id) == object_dir \o <<47>> \o SubSeq(id, 1, 2)
ObjectPath(object_dir, id) ==
    ObjectDir(object_dir, id) \o <<47>> \o SubSeq(id, 3, Len(id))

\* The compression level of the loose objects GitObject::persist writes.
PersistLevelDefault == "default"
PersistLevel == "fast"

\* GitObject::persist on the file system fs = [files, dirs]: the directory
\* is created and the deflated header+content is written (overwriting).
GitObjectPersist(obj, object_dir, fs) ==
    [files |-> Put(fs.files, ObjectPath(object_dir, obj.id),
                   ZlibEncode(PersistLevel,
                       TypeName(obj.object_type) \o <<32>> \o Dec(obj.size)
                       \o <<0>> \o obj.content)),
     dirs  |-> fs.dirs \cup Ancestors(ObjectDir(object_dir, obj.id))]

\* Repo::persist_objects: every object of the map is persisted.
RECURSIVE PersistAll(_, _, _)
PersistAll(objs, ids, fs) ==
    IF ids = {} THEN fs
    ELSE LET id == CHOOSE x \in ids : TRUE
         IN  PersistAll(objs, ids \ {id},
                        GitObjectPersist(objs[id], S_git_objects, fs))

----------------------------------------------------------------------------
(* clone *)

localVars == <<hist, dIn, dOut>>

InitClone ==
    /\ mode = "clone"
    /\ pc = "get_refs"
    /\ scen \in Scenarios
    /\ refs = <<>> /\ head = <<>> /\ res_bytes = <<>> /\ rpos = 0 /\ todo = 0
    /\ objects = <<>> /\ printed = <<>> /\ pool = <<>> /\ refsLeft = {}
    /\ files = <<>> /\ dirs = {}
    /\ hist = <<>> /\ dIn = <<>> /\ dOut = <<>>

\* get_refs: the advertised refs become Repo.refs.
GetRefs ==
    /\ mode = "clone" /\ pc = "get_refs"
    /\ refs' = Advertisement(scen)
    /\ pc' = "get_objects"
    /\ UNCHANGED <<mode, head, res_bytes, rpos, todo, objects, printed, pool,
                   refsLeft, files, dirs, scen, localVars>>

\* u32::from_be_bytes of the four bytes at pos.
U32BE(s, pos) ==
    ((s[pos] * 256 + s[pos + 1]) * 256 + s[pos + 2]) * 256 + s[pos + 3]

\* get_objects up to its loop: the response is read; 8 bytes are skipped,
\* then 4 (signature), 4 (version) and the 4 bytes of the count are read.
GetObjectsStart ==
    /\ mode = "clone" /\ pc = "get_objects"
    /\ res_bytes' = ServerResponse(scen)
    /\ objects' = <<>>
    /\ IF Len(res_bytes') < 20
       THEN pc' = "panic" /\ UNCHANGED <<rpos, todo>>
       ELSE /\ todo' = U32BE(res_bytes', 17)
            /\ rpos' = 21
            /\ pc' = "read_entries"
    /\ UNCHANGED <<mode, refs, head, printed, pool, refsLeft, files, dirs,
                   scen, localVars>>

\* ZlibDecoder::read_exact into a zeroed buffer of n bytes: the inflated
\* data, cut to n bytes or followed by the zeros the failed read left.
ZlibRead(s, p, n) ==
    LET data == ZlibData(s, p)
    IN  [object |-> IF Len(data) >= n THEN SubSeq(data, 1, n)
                    ELSE data \o [k \in 1..(n - Len(data)) |-> 0],
         pos    |-> IF Len(data) > n THEN p + 7 + n ELSE ZlibEnd(s, p)]

\* From<u8> for GitObjectType.
TypeOfCode(c) ==
    CASE c = 1 -> "commit" [] c = 2 -> "tree" [] c = 3 -> "blob" [] c = 4 -> "tag"

\* The entry types get_objects reads a base oid for and resolves: the test
\* `object_type == 7`, beside a reader that would take OFS-deltas as well.
IsAnyDelta(object_type) == object_type \in {6, 7}
IsRefDelta(object_type) == object_type = 7

\* What get_objects does with a REF-delta whose base is not in the map.
MissingBaseDropped(objs, out) ==
    [ok |-> TRUE, objects |-> objs, printed |-> Append(out, S_not_found)]

\* The body of get_objects' loop after the entry has been read: an
\* undeltified object is inserted; a REF-delta is reconstructed when its
\* base is in the map, and reported and dropped otherwise.
StoreEntry(objs, out, object_type, object_size, base_object_hash, object) ==
    IF ~IsRefDelta(object_type)
    THEN IF object_type \notin 1..4
         THEN [ok |-> FALSE, objects |-> objs, printed |-> out]
         ELSE LET o == GitObjectNew(IF object_size = 0 THEN <<>> ELSE object,
                                    TypeOfCode(object_type))
              IN  [ok |-> TRUE, objects |-> Put(objs, o.id, o), printed |-> out]
    ELSE IF base_object_hash \in DOMAIN objs
         THEN LET r == reconstruct_object(object, objs[base_object_hash])
              IN  IF r.ok
                  THEN [ok |-> TRUE, objects |-> Put(objs, r.object.id, r.object),
                        printed |-> out]
                  ELSE [ok |-> FALSE, objects |-> objs, printed |-> out]
         ELSE MissingBaseDropped(objs, out)

\* One iteration of get_objects' loop.
ReadEntry ==
    /\ mode = "clone" /\ pc = "read_entries" /\ todo > 0
    /\ LET h       == parse_object_header(res_bytes, rpos)
           isDelta == IsRefDelta(h.type)
           short   == isDelta /\ h.pos + OidLen - 1 > Len(res_bytes)
           base_object_hash ==
               IF isDelta /\ ~short
               THEN Hex(SubSeq(res_bytes, h.pos, h.pos + OidLen - 1))
               ELSE <<>>
           zpos    == IF isDelta THEN h.pos + OidLen ELSE h.pos
           z       == ZlibRead(res_bytes, zpos, IF h.size > 0 THEN h.size ELSE 1)
           r       == StoreEntry(objects, printed, h.type, h.size,
                                 base_object_hash, z.object)
       IN  IF short \/ ~r.ok
           THEN pc' = "panic" /\ UNCHANGED <<rpos, todo, objects, printed>>
           ELSE /\ objects' = r.objects
                /\ printed' = r.printed
                /\ rpos' = z.pos
                /\ todo' = todo - 1
                /\ pc' = pc
    /\ UNCHANGED <<mode, refs, head, res_bytes, pool, refsLeft, files, dirs,
                   scen, localVars>>

\* get_objects returns Ok(objects) after the loop, and clone calls
\* persist_objects: every object of the map is written to .git/objects.
PersistObjects ==
    /\ mode = "clone" /\ pc = "read_entries" /\ todo = 0
    /\ LET fs == PersistAll(objects, DOMAIN objects,
                     [files |-> files,
                      dirs  |-> dirs \cup Ancestors(S_git_objects)])
       IN  files' = fs.files /\ dirs' = fs.dirs
    /\ pc' = "persisted"
    /\ UNCHANGED <<mode, refs, head, res_bytes, rpos, todo, objects, printed,
                   pool, refsLeft, scen, localVars>>

\* populate_refs up to its iteration: .git/refs is created, and head is the
\* oid of the ref named HEAD (a panic without one).
PopulateRefsStart ==
    /\ mode = "clone" /\ pc = "persisted"
    /\ dirs' = dirs \cup Ancestors(S_git_refs)
    /\ IF S_HEAD \in DOMAIN refs
       THEN /\ head' = refs[S_HEAD]
            /\ refsLeft' = DOMAIN refs
            /\ pc' = "populate_refs"
       ELSE pc' = "panic" /\ UNCHANGED <<head, refsLeft>>
    /\ UNCHANGED <<mode, refs, res_bytes, rpos, todo, objects, printed, pool,
                   files, scen, localVars>>

\* What populate_refs writes to .git/HEAD for a branch at HEAD's oid.
HeadFileContent(ref_name) == S_ref_colon \o ref_name

\* The closure of populate_refs for one ref, on fs = [files, dirs]; ok =
\* FALSE is the panic of an unwrap on a failed write.
PopulateRef(ref_name, ref_hash, h, fs) ==
    IF \/ ref_name = S_HEAD
       \/ StartsWith(ref_name, S_refs_pull)
       \/ StartsWith(ref_name, S_refs_tags)
    THEN [ok |-> TRUE, files |-> fs.files, dirs |-> fs.dirs]
    ELSE LET atHead  == ref_hash = h
             okHead  == ~atHead \/ CanWrite(fs.dirs, S_git_HEAD)
             files1  == IF atHead
                        THEN Put(fs.files, S_git_HEAD, HeadFileContent(ref_name))
                        ELSE fs.files
             p       == S_git \o ref_name
             parent  == Parent(p)
             dirs1   == IF parent \in fs.dirs THEN fs.dirs
                        ELSE fs.dirs \cup Ancestors(parent)
             remote  == StartsWith(ref_name, S_refs_remotes)
             path    == IF remote THEN parent \o S_slash_HEAD ELSE p
             content == IF remote THEN S_ref_colon \o ref_name ELSE ref_hash
         IN  IF okHead /\ CanWrite(dirs1, path)
             THEN [ok |-> TRUE, files |-> Put(files1, path, content),
                   dirs |-> dirs1]
             ELSE [ok |-> FALSE, files |-> files1, dirs |-> dirs1]

\* One step of the iteration over Repo.refs, a HashMap: the refs are
\* visited in an order the program does not choose.
PopulateRefsStep ==
    /\ mode = "clone" /\ pc = "populate_refs"
    /\ \E r \in refsLeft :
         LET res == PopulateRef(r, refs[r], head, [files |-> files, dirs |-> dirs])
         IN  /\ files' = res.files
             /\ dirs' = res.dirs
             /\ refsLeft' = refsLeft \ {r}
             /\ pc' = IF res.ok THEN pc ELSE "panic"
    /\ UNCHANGED <<mode, refs, head, res_bytes, rpos, todo, objects, printed,
                   pool, scen, localVars>>

\* str::replace(pat, ""): every occurrence of pat removed.
RECURSIVE RemoveAll(_, _)
RemoveAll(s, pat) ==
    IF Len(s) < Len(pat) THEN s
    ELSE IF SubSeq(s, 1, Len(pat)) = pat
    THEN RemoveAll(SubSeq(s, Len(pat) + 1, Len(s)), pat)
    ELSE <<Head(s)>> \o RemoveAll(Tail(s), pat)

\* checkout_head up to its loop: the tree id is taken from the first line
\* of the HEAD commit, and the pool starts with the repository directory.
CheckoutStart ==
    /\ mode = "clone" /\ pc = "populate_refs" /\ refsLeft = {}
    /\ IF head \notin DOMAIN objects
       THEN pc' = "panic" /\ UNCHANGED pool
       ELSE LET content == objects[head].content
                sp      == SplitOnce(content, 10)
            IN  IF ~IsUtf8(content, 1) \/ ~sp.found
                THEN pc' = "panic" /\ UNCHANGED pool
                ELSE /\ pool' = <<[path |-> <<>>,
                                   tree |-> RemoveAll(sp.left, S_tree_sp)]>>
                     /\ pc' = "checkout"
    /\ UNCHANGED <<mode, refs, head, res_bytes, rpos, todo, objects, printed,
                   refsLeft, files, dirs, scen, localVars>>

\* Whether checkout treats an entry as a sub-tree: mode == "40000".
IsSubtreeZeroPadded(m) == m = <<48>> \o S_40000
IsSubtree(m) == m = S_40000

\* The entries of one tree, in order, on st = [ok, files, dirs, pool]: a
\* sub-tree's directory is created and the sub-tree pushed, a blob is
\* written; the results of create_dir_all and write are dropped.  A blob
\* that is not in the map is a panic, after the entries before it.
RECURSIVE CheckoutEntries(_, _, _, _)
CheckoutEntries(entries, dir, objs, st) ==
    IF entries = <<>> \/ ~st.ok THEN st
    ELSE LET e    == Head(entries)
             path == dir \o <<47>> \o e.name
         IN  IF IsSubtree(e.mode)
             THEN CheckoutEntries(Tail(entries), dir, objs,
                      [st EXCEPT
                         !.dirs = IF \E a \in Ancestors(path) : a \in DOMAIN st.files
                                  THEN @ ELSE @ \cup Ancestors(path),
                         !.pool = Append(@, [path |-> path, tree |-> e.sha])])
             ELSE IF e.sha \notin DOMAIN objs
             THEN [st EXCEPT !.ok = FALSE]
             ELSE CheckoutEntries(Tail(entries), dir, objs,
                      [st EXCEPT
                         !.files = IF CanWrite(st.dirs, path)
                                   THEN Put(@, path, objs[e.sha].content)
                                   ELSE @])

\* One iteration of checkout_head's loop: a tree is popped and walked.
CheckoutStep ==
    /\ mode = "clone" /\ pc = "checkout" /\ pool # <<>>
    /\ LET top  == pool[Len(pool)]
           rest == SubSeq(pool, 1, Len(pool) - 1)
           st0  == [ok |-> TRUE, files |-> files, dirs |-> dirs, pool |-> rest]
       IN  IF top.tree \notin DOMAIN objects
           THEN pc' = "panic" /\ UNCHANGED <<files, dirs, pool>>
           ELSE LET t == parse_tree_object(objects[top.tree].content)
                IN  IF ~t.ok
                    THEN pc' = "panic" /\ UNCHANGED <<files, dirs, pool>>
                    ELSE LET st == CheckoutEntries(t.entries, top.path, objects, st0)
                         IN  /\ files' = st.files
                             /\ dirs' = st.dirs
                             /\ pool' = st.pool
                             /\ pc' = IF st.ok THEN pc ELSE "panic"
    /\ UNCHANGED <<mode, refs, head, res_bytes, rpos, todo, objects, printed,
                   refsLeft, scen, localVars>>

\* The pool is empty: checkout_head and clone return.
CloneDone ==
    /\ mode = "clone" /\ pc = "checkout" /\ pool = <<>>
    /\ pc' = "done"
    /\ UNCHANGED <<mode, refs, head, res_bytes, rpos, todo, objects, printed,
                   pool, refsLeft, files, dirs, scen, localVars>>

Next ==
    \/ GetRefs
    \/ GetObjectsStart
    \/ ReadEntry
    \/ PersistObjects
    \/ PopulateRefsStart
    \/ PopulateRefsStep
    \/ CheckoutStart
    \/ CheckoutStep
    \/ CloneDone

Spec == InitClone /\ [][Next]_vars

----------------------------------------------------------------------------
(* Properties of clone *)

\* The entries of the server's trees, by the names of their objects.
Listing(t) ==
    CASE t = "S"  -> <<[name |-> N_f, obj |-> "B"]>>
      [] t = "T"  -> <<[name |-> N_a, obj |-> "A"], [name |-> N_d, obj |-> "S"],
                       [name |-> N_x, obj |-> "B"]>>
      [] t = "T1" -> <<[name |-> N_a, obj |-> "A"]>>
      [] t = "T3" -> <<[name |-> N_a, obj |-> "A"], [name |-> N_b, obj |-> "B"],
                       [name |-> N_c, obj |-> "D"]>>

HeadTree(repo) ==
    CASE repo = "tree" -> "T" [] repo = "branches" -> "T1" [] repo = "chain" -> "T3"

\* The entries reachable from tree t below the path dir: <<path, object>>.
RECURSIVE Reachable(_, _)
Reachable(t, dir) ==
    UNION {LET e    == Listing(t)[k]
               path == dir \o <<47>> \o e.name
           IN  IF ServerObject[e.obj].type = "tree"
               THEN {<<path, e.obj>>} \cup Reachable(e.obj, path)
               ELSE {<<path, e.obj>>} : k \in 1..Len(Listing(t))}

\* The server object with the hex id.
CommitOf(id) == CHOOSE n \in DOMAIN ServerObject : ServerId[n] = id

InStore(n) == ObjectPath(S_git_objects, ServerId[n]) \in DOMAIN files

\* get_objects has returned Ok(objects).
GetObjectsReturned ==
    /\ mode = "clone"
    /\ \/ pc = "read_entries" /\ todo = 0
       \/ pc \in {"persisted", "populate_refs", "checkout", "done"}

\* Every REF-delta of the pack has its base among the pack's objects.
SelfContained ==
    \A n \in DOMAIN DeltaPlan(scen.deltify) :
        \E k \in 1..Len(scen.order) :
            scen.order[k] = DeltaPlan(scen.deltify)[n].base

\* C1: when get_objects returns an object map, no REF-delta of the pack
\* names a base that is absent from the map: a delta whose base is missing
\* makes ingestion fail, it is never left out of a successful result.
C1_MissingBaseFails ==
    GetObjectsReturned =>
        \A n \in DOMAIN DeltaPlan(scen.deltify) :
            ServerId[DeltaPlan(scen.deltify)[n].base] \in DOMAIN objects

\* C2: for a pack whose REF-delta bases are all in the pack, the map that
\* get_objects returns holds the reconstructed target of every delta, in
\* every order of the entries, a base after its delta included.
C2_EveryDeltaResolved ==
    (GetObjectsReturned /\ SelfContained) =>
        \A n \in DOMAIN DeltaPlan(scen.deltify) :
            /\ ServerId[n] \in DOMAIN objects
            /\ objects[ServerId[n]].content = ServerObject[n].content
            /\ objects[ServerId[n]].object_type = ServerObject[n].type

\* C3: given a pack that holds the closure of the wanted oids, when clone
\* completes every object reachable from every advertised ref is in the
\* store, and the closure of the HEAD commit is in the store already when
\* checkout_head starts.
C3_ClosureInStore ==
    (mode = "clone" /\ SelfContained) =>
        /\ pc = "done" =>
             \A r \in DOMAIN refs : \A n \in Reach(CommitOf(refs[r])) : InStore(n)
        /\ pc = "checkout" =>
             \A n \in Reach(HeadCommit(scen.repo)) : InStore(n)

\* C4: after a successful clone .git/HEAD holds exactly
\* "ref: refs/heads/<default>\n" for the branch at HEAD's advertised oid,
\* and .git/refs/heads/<default> holds the advertised 40-hex oid, whatever
\* other refs carry the same oid and in whatever order the refs are visited.
C4_HeadNamesDefault ==
    (mode = "clone" /\ pc = "done") =>
        /\ S_git_HEAD \in DOMAIN files
        /\ S_git \o R_main \in DOMAIN files
        /\ files[S_git_HEAD] = S_ref_colon \o R_main \o <<10>>
        /\ StartsWith(files[S_git \o R_main], refs[R_main])
        /\ Len(files[S_git \o R_main]) <= 41

\* C5: after a successful clone every entry reachable from the tree of the
\* HEAD commit is materialized: a blob as a file with exactly the blob's
\* bytes, a sub-tree as a directory, recursively, none skipped.
C5_CheckoutMaterializes ==
    (mode = "clone" /\ pc = "done") =>
        \A e \in Reachable(HeadTree(scen.repo), <<>>) :
            IF ServerObject[e[2]].type = "tree"
            THEN e[1] \in dirs /\ e[1] \notin DOMAIN files
            ELSE /\ e[1] \in DOMAIN files
                 /\ files[e[1]] = ServerObject[e[2]].content
                 /\ e[1] \notin dirs

\* A clone of the repository with a sub-directory has completed from a pack
\* with a delta; the nested file is there, and the oids of two entries of
\* the HEAD tree contain a 0x00 byte.
C5_Witness ==
    /\ mode = "clone" /\ pc = "done"
    /\ scen.repo = "tree" /\ scen.deltify = "BonA"
    /\ <<47>> \o N_d \o <<47>> \o N_f \in DOMAIN files
    /\ \E k \in 1..OidLen : ServerOid["A"][k] = 0
    /\ \E k \in 1..OidLen : ServerOid["S"][k] = 0

\* C11: a clone that fails leaves nothing on disk but loose objects under
\* .git/objects: no HEAD, no ref file and no file of the working tree.
C11_FailedCloneLeavesOnlyObjects ==
    (mode = "clone" /\ pc = "panic") =>
        \A p \in DOMAIN files : StartsWith(p, S_git_objects \o <<47>>)

\* The response stops before the end of the pack the server sent.
Truncated ==
    scen.fault \in {"cut_header", "cut_base", "cut_payload"}

\* The objects of the map that the server never had.
Foreign == {id \in DOMAIN objects : \A n \in DOMAIN ServerId : ServerId[n] # id}

\* C14: when the pack stream ends inside an entry (its header, its base oid
\* or its deflated payload), get_objects does not return, and no object
\* with a partly read or padded payload is in the map or on disk.
C14_TruncatedPackFails ==
    (mode = "clone" /\ Truncated) =>
        /\ ~GetObjectsReturned
        /\ Foreign = {}
        /\ DOMAIN files = {}

\* The four bytes after the acknowledgement are not "PACK".
BadSignature ==
    /\ Len(res_bytes) >= 12
    /\ SubSeq(res_bytes, 9, 12) # <<80, 65, 67, 75>>

\* C15: from a stream that does not start with the signature PACK
\* get_objects takes no entry: it does not return, no object is in the map
\* and none is persisted.
C15_SignatureChecked ==
    (mode = "clone" /\ BadSignature) =>
        /\ ~GetObjectsReturned
        /\ objects = <<>>
        /\ DOMAIN files = {}

\* C16: a pack with an OFS-delta entry (type 6) ends the ingestion: the
\* map is not returned and the clone writes no object, ref, HEAD or file.
C16_OfsDeltaUnsupported ==
    (mode = "clone" /\ scen.fault = "ofs") =>
        /\ ~GetObjectsReturned
        /\ DOMAIN files = {}

\* The reader has met the type-6 entry, after an undeltified object was
\* taken, and the clone has stopped there.
C16_Witness ==
    /\ mode = "clone" /\ scen.fault = "ofs" /\ pc = "panic"
    /\ objects # <<>>
    /\ parse_object_header(res_bytes, rpos).type = 6

----------------------------------------------------------------------------
(* The local commands: hash-object, write-tree, ls-tree, commit-tree *)

\* The compression level of the objects App writes.
AppLevel == "fast"

\* App::make_git_object: the deflated header+content and its binary hash.
make_git_object(content, obj_type) ==
    [compressed |-> ZlibEncode(AppLevel, Wrap(obj_type, content)),
     bin_hash   |-> Sha1(Wrap(obj_type, content))]

\* The write of an object file by App (persist_git_object and the tails of
\* make_tree_object and make_commit_object): the directory is created, the
\* file is written, and a failed write is only printed.
AppWriteObject(bin_hash, compressed, fs) ==
    LET hash  == Hex(bin_hash)
        dirs1 == fs.dirs \cup Ancestors(ObjectDir(S_git_objects, hash))
        path  == ObjectPath(S_git_objects, hash)
    IN  [files |-> IF CanWrite(dirs1, path) THEN Put(fs.files, path, compressed)
                   ELSE fs.files,
         dirs  |-> dirs1]

\* Bytewise order of two names (str::cmp).
RECURSIVE NameLess(_, _)
NameLess(a, b) ==
    IF a = <<>> THEN b # <<>>
    ELSE IF b = <<>> THEN FALSE
    ELSE IF Head(a) # Head(b) THEN Head(a) < Head(b)
    ELSE NameLess(Tail(a), Tail(b))

\* sort_by(|a, b| a.name.cmp(b.name)): a stable sort by name.
RECURSIVE InsertByName(_, _)
InsertByName(e, sorted) ==
    IF sorted = <<>> THEN <<e>>
    ELSE IF NameLess(e.name, Head(sorted).name)
    THEN <<e>> \o sorted
    ELSE <<Head(sorted)>> \o InsertByName(e, Tail(sorted))
RECURSIVE SortByName(_)
SortByName(es) ==
    IF es = <<>> THEN <<>>
    ELSE InsertByName(es[Len(es)], SortByName(SubSeq(es, 1, Len(es) - 1)))

\* str::contains: pat occurs in s.
Contains(s, pat) ==
    \E k \in 0..(Len(s) - Len(pat)) : SubSeq(s, k + 1, k + Len(pat)) = pat

\* The filter of make_tree_object: names found in .gitignore, and .git.
Ignored(name, git_ignore) ==
    Contains(git_ignore, name) \/ name = <<46, 103, 105, 116>>   \* ".git"

\* st_mode of a regular file with the permission bits perm.
StMode(perm) == 32768 + perm

\* The mode string of a regular file's entry: format!("{:o}", perms.mode()).
FileMode(perm) == Oct(StMode(perm))

\* make_tree_object on a directory: node is the sequence of its entries,
\* [name, kind, perm, content] for a file and [name, kind, children] for a
\* directory.  Returns the tree's binary hash, the file system, and the
\* entries of every tree written (trees).  For a regular file the blob is
\* hashed by make_blob_object; nothing writes it.
RECURSIVE make_tree_object(_, _, _)
RECURSIVE TreeEntries(_, _, _, _)
TreeEntries(node, git_ignore, st, k) ==
    IF k > Len(node) THEN st
    ELSE LET e == node[k]
         IN  IF Ignored(e.name, git_ignore)
             THEN TreeEntries(node, git_ignore, st, k + 1)
             ELSE IF e.kind = "dir"
             THEN LET sub == make_tree_object(e.children, git_ignore, st.fs)
                  IN  TreeEntries(node, git_ignore,
                          [fs |-> sub.fs,
                           trees |-> st.trees \cup sub.trees,
                           tree_entries |-> Append(st.tree_entries,
                               [mode |-> Oct(16384), name |-> e.name,
                                sha |-> sub.bin_hash, kind |-> "dir",
                                perm |-> 0])],
                          k + 1)
             ELSE LET b == make_git_object(e.content, "blob")
                  IN  TreeEntries(node, git_ignore,
                          [fs |-> st.fs,
                           trees |-> st.trees,
                           tree_entries |-> Append(st.tree_entries,
                               [mode |-> FileMode(e.perm), name |-> e.name,
                                sha |-> b.bin_hash, kind |-> "file",
                                perm |-> e.perm])],
                          k + 1)

make_tree_object(node, git_ignore, fs) ==
    LET st == TreeEntries(node, git_ignore,
                  [fs |-> fs, trees |-> {}, tree_entries |-> <<>>], 1)
        sorted  == SortByName(st.tree_entries)
        content == TreeBytes(sorted)
        o       == make_git_object(content, "tree")
    IN  [bin_hash |-> o.bin_hash,
         fs       |-> AppWriteObject(o.bin_hash, o.compressed, st.fs),
         trees    |-> st.trees \cup {[id |-> Hex(o.bin_hash), entries |-> sorted]}]

\* slice::split(|x| *x == b): the parts between the occurrences of b.
RECURSIVE Split(_, _, _)
Split(s, b, from) ==
    LET k == IndexFrom(s, b, from)
    IN  IF k = 0 THEN <<SubSeq(s, from, Len(s))>>
        ELSE <<SubSeq(s, from, k - 1)>> \o Split(s, b, k + 1)

\* The fold of ls_tree over the parts after the header; part k of parts has
\* the index k - 1 of enumerate, and empty parts are filtered out.  ok =
\* FALSE is a panic.
RECURSIVE LsFold(_, _, _)
LsFold(parts, k, acc) ==
    IF k > Len(parts) THEN [ok |-> TRUE, entries |-> acc]
    ELSE LET part == parts[k]
             i    == k - 1
         IN  IF part = <<>> THEN LsFold(parts, k + 1, acc)
             ELSE IF i = 0
             THEN LET sp == SplitOnce(part, 32)
                  IN  IF ~IsUtf8(part, 1) \/ ~sp.found
                      THEN [ok |-> FALSE, entries |-> acc]
                      ELSE LsFold(parts, k + 1,
                               Append(acc, TreeEntry(sp.left, sp.right, <<>>)))
             ELSE IF Len(part) < OidLen THEN LsFold(parts, k + 1, acc)
             ELSE LET rest == SubSeq(part, OidLen + 1, Len(part))
                      sp   == SplitOnce(rest, 32)
                  IN  IF i > Len(acc) \/ ~IsUtf8(rest, 1)
                      THEN [ok |-> FALSE, entries |-> acc]
                      ELSE LET acc1 == [acc EXCEPT
                                          ![i].sha = Hex(SubSeq(part, 1, OidLen))]
                           IN  LsFold(parts, k + 1,
                                   IF sp.found
                                   THEN Append(acc1,
                                            TreeEntry(sp.left, sp.right, <<>>))
                                   ELSE acc1)

\* App::read_object: the inflated bytes of the object file (a panic when
\* the file cannot be read).
read_object(fs, sha) ==
    LET path == ObjectPath(S_git_objects, sha)
    IN  IF path \in DOMAIN fs.files
        THEN [ok |-> TRUE, content |-> ZlibData(fs.files[path], 1)]
        ELSE [ok |-> FALSE, content |-> <<>>]

\* App::ls_tree: the names printed, in name order.
ls_tree(fs, tree_sha) ==
    LET first == read_object(fs, tree_sha)
        bare  == /\ StartsWith(first.content, TypeName("tree"))
                 /\ IndexFrom(first.content, 0, 1) = 0
        normalized_tree_sha ==
            IF bare THEN Hex(SubSeq(first.content, 6, 5 + OidLen)) ELSE tree_sha
        obj   == read_object(fs, normalized_tree_sha)
        parts == Split(obj.content, 0, 1)
        r     == LsFold(Tail(parts), 1, <<>>)
    IN  IF ~first.ok \/ (bare /\ Len(first.content) < 5 + OidLen) \/ ~obj.ok
        THEN [ok |-> FALSE, names |-> <<>>]
        ELSE IF ~r.ok THEN [ok |-> FALSE, names |-> <<>>]
        ELSE [ok |-> TRUE,
              names |-> LET es == SortByName(r.entries)
                        IN  [k \in 1..Len(es) |-> es[k].name]]

\* make_commit_object: the commit payload for a tree, an optional parent,
\* the clock's timestamp and offset, and a message.
CommitPayload(tree_hash, parent_hash, timestamp, offset, message) ==
    LET hour == IF offset < 0 THEN -((-offset) \div 3600) ELSE offset \div 3600
        abs  == IF hour < 0 THEN -hour ELSE hour
        timezone == (IF hour < 0 THEN <<45>> ELSE <<43>>)
                    \o (IF abs < 10 THEN <<48>> ELSE <<>>) \o Dec(abs)
                    \o <<48, 48>>
        who  == <<84, 114, 117, 110, 103, 32, 84, 114, 97, 110, 32, 60, 116, 114, 117, 110, 103, 116, 114, 97, 110, 64, 101, 109, 97, 105, 108, 46, 99, 111, 109, 62, 32>>   \* "Trung Tran <trungtran@email.com> "
                \o Dec(timestamp) \o <<32>> \o timezone
    IN  S_tree_sp \o tree_hash \o <<10>>
        \o (IF parent_hash = <<>> THEN <<>>
            ELSE <<112, 97, 114, 101, 110, 116, 32>>   \* "parent "
                 \o parent_hash \o <<10>>)
        \o <<97, 117, 116, 104, 111, 114, 32>>   \* "author "
        \o who \o <<10>>
        \o <<99, 111, 109, 109, 105, 116, 116, 101, 114, 32>>   \* "committer "
        \o who \o <<10, 10>>
        \o message \o <<10>>

----------------------------------------------------------------------------
(* The local program: commands run one after another in a directory *)

MaxCmds == 2

File(name, perm, content) ==
    [name |-> name, kind |-> "file", perm |-> perm, content |-> content,
     children |-> <<>>]
Dir(name, children) ==
    [name |-> name, kind |-> "dir", perm |-> 0, content |-> <<>>,
     children |-> children]

N_gitignore == <<46, 103, 105, 116, 105, 103, 110, 111, 114, 101>>   \* ".gitignore"

\* Working directories: files of several permissions, a sub-directory, an
\* ignore file, and the empty directory.  perm is in decimal (0o644 = 420).
WorkDir(shape, perm) ==
    CASE shape = "flat" ->
           <<File(N_b, 420, Blob_D), File(N_a, perm, Blob_A)>>
      [] shape = "nested" ->
           <<File(N_x, 493, Blob_B), File(N_a, perm, Blob_A),
             Dir(N_d, <<File(N_f, 420, Blob_B)>>)>>
      [] shape = "ignore" ->
           <<File(N_gitignore, 420, N_b \o <<10>>), File(N_a, perm, Blob_A),
             File(N_b, 420, Blob_B)>>
      [] shape = "empty" -> <<>>

WorkDirs ==
    {[shape |-> sh, perm |-> pm] :
        sh \in {"flat", "nested", "ignore"}, pm \in {420, 493, 384, 436, 511}}
    \cup {[shape |-> "empty", perm |-> 420]}

\* fs::read(".gitignore") in the root of the working directory, or "".
GitIgnore(wd) ==
    IF \E k \in 1..Len(wd) : wd[k].name = N_gitignore /\ wd[k].kind = "file"
    THEN wd[CHOOSE k \in 1..Len(wd) : wd[k].name = N_gitignore].content
    ELSE <<>>

\* Objects a clone into this directory persists (GitObject::persist).
Cloned == {[type |-> "blob", content |-> Blob_A],
           [type |-> "tree", content |-> Tree_S]}

Event(cmd, arg, obj, id, trees, ok, names) ==
    [cmd |-> cmd, arg |-> arg, obj |-> obj, id |-> id, trees |-> trees,
     ok |-> ok, names |-> names]

cloneVars == <<refs, head, res_bytes, rpos, todo, objects, pool, refsLeft>>

\* The directories at the start: the working directory alone, or also a
\* directory in the place of the object file of the blob of file a, so
\* that writing that file fails.
StartDirs ==
    {{<<>>},
     {<<>>} \cup Ancestors(ObjectPath(S_git_objects, Hex(Oid("blob", Blob_A))))}

InitLocal ==
    /\ mode = "local"
    /\ pc = "shell"
    /\ scen \in WorkDirs
    /\ refs = <<>> /\ head = <<>> /\ res_bytes = <<>> /\ rpos = 0 /\ todo = 0
    /\ objects = <<>> /\ printed = <<>> /\ pool = <<>> /\ refsLeft = {}
    /\ files = <<>> /\ dirs \in StartDirs
    /\ hist = <<>> /\ dIn = <<>> /\ dOut = <<>>

Wd == WorkDir(scen.shape, scen.perm)
Fs == [files |-> files, dirs |-> dirs]

\* hash-object -w <file>: the blob is made, written and its hash printed.
HashObject ==
    /\ mode = "local" /\ Len(hist) < MaxCmds
    /\ \E k \in 1..Len(Wd) :
         /\ Wd[k].kind = "file"
         /\ LET o  == make_git_object(Wd[k].content, "blob")
                fs == AppWriteObject(o.bin_hash, o.compressed, Fs)
            IN  /\ files' = fs.files
                /\ dirs' = fs.dirs
                /\ printed' = Append(printed, Hex(o.bin_hash))
                /\ hist' = Append(hist,
                       Event("hash-object", Wd[k].name,
                             [type |-> "blob", content |-> Wd[k].content],
                             Hex(o.bin_hash), {}, TRUE, <<>>))
    /\ UNCHANGED <<mode, pc, scen, cloneVars, dIn, dOut>>

\* write-tree: the tree of "." is built and its hash printed.
WriteTree ==
    /\ mode = "local" /\ Len(hist) < MaxCmds
    /\ LET r    == make_tree_object(Wd, GitIgnore(Wd), Fs)
           root == CHOOSE t \in r.trees : t.id = Hex(r.bin_hash)
       IN  /\ files' = r.fs.files
           /\ dirs' = r.fs.dirs
           /\ printed' = Append(printed, Hex(r.bin_hash))
           /\ hist' = Append(hist,
                  Event("write-tree", <<>>,
                        [type |-> "tree", content |-> TreeBytes(root.entries)],
                        Hex(r.bin_hash), r.trees, TRUE, <<>>))
    /\ UNCHANGED <<mode, pc, scen, cloneVars, dIn, dOut>>

\* The trees write-tree has written so far.
KnownTrees == UNION {hist[k].trees : k \in 1..Len(hist)}

\* ls-tree --name-only <oid> on a tree that write-tree wrote: the names are
\* printed, or the command panics.
LsTree ==
    /\ mode = "local" /\ Len(hist) < MaxCmds
    /\ \E t \in KnownTrees :
         LET r == ls_tree(Fs, t.id)
         IN  /\ printed' = printed \o r.names
             /\ hist' = Append(hist,
                    Event("ls-tree", t.id, [type |-> "tree", content |-> <<>>],
                          t.id, {}, r.ok, r.names))
    /\ UNCHANGED <<mode, pc, scen, cloneVars, files, dirs, dIn, dOut>>

\* commit-tree <tree> -m <msg>: the commit is made at the clock's time,
\* written, and its hash printed.
CommitTree ==
    /\ mode = "local" /\ Len(hist) < MaxCmds
    /\ \E t \in KnownTrees, timestamp \in {1, 2} :
         LET payload == CommitPayload(t.id, <<>>, timestamp, 0, <<109>>)
             o  == make_git_object(payload, "commit")
             fs == AppWriteObject(o.bin_hash, o.compressed, Fs)
         IN  /\ files' = fs.files
             /\ dirs' = fs.dirs
             /\ printed' = Append(printed, Hex(o.bin_hash))
             /\ hist' = Append(hist,
                    Event("commit-tree", t.id,
                          [type |-> "commit", content |-> payload],
                          Hex(o.bin_hash), {}, TRUE, <<>>))
    /\ UNCHANGED <<mode, pc, scen, cloneVars, dIn, dOut>>

\* GitObject::persist of an object a clone into this directory received;
\* a failed write is a panic (the unwrap of fs::write).
PersistObject ==
    /\ mode = "local" /\ Len(hist) < MaxCmds
    /\ \E c \in Cloned :
         LET obj == GitObjectNew(c.content, c.type)
             fs  == GitObjectPersist(obj, S_git_objects, Fs)
             ok  == CanWrite(fs.dirs, ObjectPath(S_git_objects, obj.id))
         IN  /\ files' = IF ok THEN fs.files ELSE files
             /\ dirs' = fs.dirs
             /\ hist' = Append(hist,
                    Event("persist", <<>>, c, obj.id, {}, ok, <<>>))
    /\ UNCHANGED <<mode, pc, scen, cloneVars, printed, dIn, dOut>>

NextLocal ==
    \/ HashObject
    \/ WriteTree
    \/ LsTree
    \/ CommitTree
    \/ PersistObject

SpecLocal == InitLocal /\ [][NextLocal]_vars

----------------------------------------------------------------------------
(* Properties of the local commands *)

Writes == {"hash-object", "write-tree", "commit-tree", "persist"}
Stored(id) == ObjectPath(S_git_objects, id) \in DOMAIN files

\* One command of the local program with respect to the objects that are in
\* the store before it.
WriteKeepsStore ==
    (mode = "local" /\ Len(hist') = Len(hist) + 1) =>
        LET ev == hist'[Len(hist')]
        IN  /\ \A p \in DOMAIN files : p \in DOMAIN files' /\ files'[p] = files[p]
            /\ (ev.cmd \in Writes \ {"write-tree"} /\ Stored(ev.id)) =>
                   ev.ok /\ files' = files
            /\ (ev.cmd = "write-tree" /\ \A t \in ev.trees : Stored(t.id)) =>
                   ev.ok /\ files' = files
            /\ \A k \in 1..Len(hist) :
                   (ev.cmd \in Writes /\ hist[k].cmd \in Writes
                    /\ hist[k].obj = ev.obj) => hist[k].id = ev.id

C7_WrittenTreeClosed ==
    mode = "local" =>
        \A k \in 1..Len(hist) :
            hist[k].cmd = "write-tree" =>
                \A t \in hist[k].trees : \A i \in 1..Len(t.entries) :
                    Stored(Hex(t.entries[i].sha))

\* The mode of a regular file by its owner-executable bit alone.
FileModeByExecBit(perm) ==
    IF (perm \div 64) % 2 = 1 THEN M_100755 ELSE M_100644

\* C8: every entry of every tree write-tree builds has the mode 40000 for a
\* directory and, for a regular file, 100644 or 100755 by the executable
\* bit alone, whatever the other permission bits.
C8_ModeByExecBit ==
    mode = "local" =>
        \A k \in 1..Len(hist) :
            hist[k].cmd = "write-tree" =>
                \A t \in hist[k].trees : \A i \in 1..Len(t.entries) :
                    t.entries[i].mode =
                        IF t.entries[i].kind = "dir" THEN S_40000
                        ELSE FileModeByExecBit(t.entries[i].perm)

\* C9: ls-tree --name-only on a well-formed tree of the store prints the
\* name of every entry, in sort order, and nothing else, also when the raw
\* oid of an entry contains 0x00.
C9_LsTreePrintsEveryName ==
    mode = "local" =>
        \A k \in 1..Len(hist) :
            hist[k].cmd = "ls-tree" =>
                \A t \in KnownTrees :
                    t.id = hist[k].arg =>
                        /\ hist[k].ok
                        /\ hist[k].names =
                             [i \in 1..Len(t.entries) |-> t.entries[i].name]

\* C12: a command whose write of an object file fails does not end with the
\* exit status 0 and the oid printed: when hash-object, write-tree or
\* commit-tree has ended with status 0, the object it was to write is in
\* the store.
C12_FailedWriteAborts ==
    mode = "local" =>
        \A k \in 1..Len(hist) :
            (hist[k].cmd \in {"hash-object", "write-tree", "commit-tree"}
             /\ hist[k].ok) =>
                /\ Stored(hist[k].id)
                /\ \A t \in hist[k].trees : Stored(t.id)

----------------------------------------------------------------------------
(* The delta program: reconstruct_object applied to one (base, delta) *)

MaxInstr == 2

SmallBase == <<97, 98, 99, 0, 100, 101>>
BigBase   == [i \in 1..65539 |-> i % 251]
BaseContent(b) == IF b = "small" THEN SmallBase ELSE BigBase

\* Copy and insert instructions on the small base: offsets and sizes with
\* absent bytes, with bytes that are present and zero, inserts that hold
\* 0x00 and bytes with the high bit set.
SmallInstrs ==
    { Copy(0, 6, {}, {0}),
      Copy(2, 3, {0}, {0}),
      Copy(1, 2, {0, 1, 3}, {0, 2}),
      Copy(5, 1, {0, 2}, {0, 1}),
      Insert(<<88>>),
      Insert(<<0, 200, 7>>) }

\* Programs on the big base: copies of 0x10000 bytes (size bytes absent,
\* or present and zero), offsets and sizes of more than one byte.
BigPrograms ==
    { <<Copy(0, 65536, {}, {})>>,
      <<Insert(<<1>>), Copy(3, 65536, {0}, {0, 1})>>,
      <<Copy(65537, 2, {0, 2}, {0}), Copy(256, 257, {1}, {0, 1})>> }

SeqsUpTo(S, n) == UNION {[1..k -> S] : k \in 1..n}

\* Deltas a correct packer never writes: the declared size of the base or
\* of the target is off by one, or an instruction byte is 0x00 (written
\* here as an insert of no bytes).
ZeroInstr == Insert(<<>>)
FaultyDeltaInputs ==
    {[base |-> "small", type |-> "blob", instrs |-> <<i>>, fault |-> f] :
        i \in SmallInstrs, f \in {"base_size", "target_size"}}
    \cup {[base |-> "small", type |-> "blob", instrs |-> p, fault |-> "zero"] :
        p \in {q \in SeqsUpTo(SmallInstrs \cup {ZeroInstr}, MaxInstr) :
                  \E k \in 1..Len(q) : q[k] = ZeroInstr}}

DeltaInputs ==
    {[base |-> "small", type |-> t, instrs |-> p, fault |-> "none"] :
        t \in {"blob", "tree"}, p \in SeqsUpTo(SmallInstrs, MaxInstr)}
    \cup {[base |-> "big", type |-> "blob", instrs |-> p, fault |-> "none"] :
        p \in BigPrograms}
    \cup FaultyDeltaInputs

\* The sizes the delta of input in declares for its base and its target.
DeclaredBaseSize(in) ==
    Len(BaseContent(in.base)) + (IF in.fault = "base_size" THEN 1 ELSE 0)
DeclaredTargetSize(in) ==
    Len(Target(BaseContent(in.base), in.instrs))
    + (IF in.fault = "target_size" THEN 1 ELSE 0)

\* The bytes of the delta of input in: the two sizes, the instructions.
DeltaBytes(in) ==
    EncVarint(DeclaredBaseSize(in)) \o EncVarint(DeclaredTargetSize(in))
    \o Flatten([k \in 1..Len(in.instrs) |-> EncodeInstr(in.instrs[k])])

DeltaIdle ==
    /\ refs = <<>> /\ head = <<>> /\ res_bytes = <<>> /\ rpos = 0 /\ todo = 0
    /\ objects = <<>> /\ printed = <<>> /\ pool = <<>> /\ refsLeft = {}
    /\ files = <<>> /\ dirs = {} /\ scen = <<>> /\ hist = <<>>

InitDelta ==
    /\ mode = "delta"
    /\ pc = "start"
    /\ dIn \in DeltaInputs
    /\ dOut = [ok |-> FALSE]
    /\ DeltaIdle

\* The base object as get_objects hands it to reconstruct_object.
DeltaBaseObject == [content |-> BaseContent(dIn.base), object_type |-> dIn.type]

Reconstruct ==
    /\ mode = "delta"
    /\ pc = "start"
    /\ dOut' = reconstruct_object(DeltaBytes(dIn), DeltaBaseObject)
    /\ pc' = "done"
    /\ UNCHANGED <<mode, refs, head, res_bytes, rpos, todo, objects, printed,
                   pool, refsLeft, files, dirs, scen, hist, dIn>>

NextDelta == Reconstruct

SpecDelta == InitDelta /\ [][NextDelta]_vars

\* C10: for every base and every well-formed delta whose copy ranges lie
\* inside the base, reconstruct_object returns byte-exactly the target that
\* executing the instructions in order yields, as an object of the base's
\* type whose id is the hex digest of its own wrapped form.
C10_DeltaIdentity ==
    (mode = "delta" /\ pc = "done") =>
        LET T == Target(BaseContent(dIn.base), dIn.instrs)
        IN  /\ dOut.ok
            /\ dOut.object.content = T
            /\ dOut.object.object_type = dIn.type
            /\ dOut.object.id = Hex(Sha1(Wrap(dIn.type, T)))

\* A copy of 0x10000 bytes written with size 0, after an insert, has been
\* reconstructed, and the target's id is not the id of the base.
C10_Witness ==
    /\ mode = "delta" /\ pc = "done"
    /\ dIn.base = "big"
    /\ Len(dIn.instrs) = 2
    /\ dIn.instrs[2].op = "copy" /\ dIn.instrs[2].size = 65536
    /\ dOut.ok
    /\ Len(dOut.object.content) = 65537
    /\ dOut.object.id # Hex(Sha1(Wrap(dIn.type, BaseContent(dIn.base))))

\* C17: reconstruct_object produces no object when the base size the
\* delta declares is not the length of the base, or the target size it
\* declares is not the length of what the instructions built.
C17_SizesVerified ==
    (mode = "delta" /\ pc = "done"
     /\ (\/ DeclaredBaseSize(dIn) # Len(BaseContent(dIn.base))
         \/ DeclaredTargetSize(dIn)
                # Len(Target(BaseContent(dIn.base), dIn.instrs)))) =>
        ~dOut.ok

\* C18: a delta with an instruction byte 0x00 is rejected and no target
\* object is produced; the byte is not taken as an insert of no bytes.
C18_ZeroInstructionRejected ==
    (mode = "delta" /\ pc = "done"
     /\ \E k \in 1..Len(dIn.instrs) : EncodeInstr(dIn.instrs[k]) = <<0>>) =>
        ~dOut.ok

----------------------------------------------------------------------------
(* The request of get_objects *)

\* format!("{:04x}", n): four lowercase hex digits, zero-padded (n < 65536).
Hex04(n) ==
    <<HexDigit((n \div 4096) % 16), HexDigit((n \div 256) % 16),
      HexDigit((n \div 16) % 16), HexDigit(n % 16)>>

\* One element of wants: the length in hex and "want <oid>".
WantLine(x) ==
    LET want == S_want_sp \o x
    IN  Hex04(Len(want) + 5) \o want

\* Vec::dedup: of a run of equal elements only the first stays.
Dedup(v) ==
    LET keep == {i \in 1..Len(v) : i = 1 \/ v[i] # v[i - 1]}
        at(k) == CHOOSE i \in keep : Cardinality({j \in keep : j <= i}) = k
    IN  [k \in 1..Cardinality(keep) |-> v[at(k)]]

\* [String]::join(sep).
Join(v, sep) ==
    Flatten([i \in 1..Len(v) |-> IF i = 1 THEN v[i] ELSE sep \o v[i]])

\* The body get_objects posts for the list hashes.
RequestBody(hashes) ==
    Join(Dedup([i \in 1..Len(hashes) |-> WantLine(hashes[i])]), <<10>>)
    \o S_flush_done

----------------------------------------------------------------------------
(* The parse program: one request built or one byte string decoded *)

MaxWants   == 3
MaxEntries == 2
MaxHdr     == 3

\* The oids a ref map can hold: those of three objects of the server.
WantOids == {ServerId["C"], ServerId["A"], ServerId["B"]}

\* Raw oids with 0x00 nowhere, first, last, twice in a row and also last,
\* and everywhere.
RawOids ==
    { [i \in 1..OidLen |-> 16 + i],
      [i \in 1..OidLen |-> IF i = 1 THEN 0 ELSE 16 + i],
      [i \in 1..OidLen |-> IF i = OidLen THEN 0 ELSE 16 + i],
      [i \in 1..OidLen |-> IF i \in {7, 8, OidLen} THEN 0 ELSE 16 + i],
      [i \in 1..OidLen |-> 0] }

\* Names of one byte, of 12 and 13 bytes (with the mode 100644 the first
\* read of the decoder is 20 and 21 bytes long), with a space, a directory,
\* a name in UTF-8 and a name in Latin-1.
N_twelve   == <<98, 45, 116, 119, 101, 108, 118, 101, 45, 99, 104, 114>>   \* "b-twelve-chr"
N_thirteen == <<99, 45, 116, 104, 105, 114, 116, 101, 101, 110, 45, 99, 104>>   \* "c-thirteen-ch"
N_spaced   == <<101, 32, 102>>   \* "e f"
N_lib      == <<108, 105, 98>>   \* "lib"
N_utf8     == <<122, 195, 169>>
N_latin1   == <<122, 233>>
TreeNames ==
    {N_a, N_twelve, N_thirteen, N_spaced, N_lib, N_utf8, N_latin1}

TreeInputEntries ==
    {TreeEntry(IF n = N_lib THEN S_40000 ELSE M_100644, n, o) :
        n \in TreeNames, o \in RawOids}

\* Entries in strict name order: the well-formed trees.
NameSorted(es) ==
    \A k \in 1..(Len(es) - 1) : NameLess(es[k].name, es[k + 1].name)

ParseInputs ==
    {[kind |-> "wants", hashes |-> h] :
        h \in SeqsUpTo(WantOids, MaxWants)}
    \cup {[kind |-> "tree", entries |-> es] :
        es \in {x \in {<<>>} \cup SeqsUpTo(TreeInputEntries, MaxEntries) :
                   NameSorted(x)}}
    \cup {[kind |-> "header", bytes |-> b] :
        b \in {<<>>} \cup SeqsUpTo({0, 53, 127, 128, 149, 255}, MaxHdr)}

InitParse ==
    /\ mode = "parse"
    /\ pc = "start"
    /\ dIn \in ParseInputs
    /\ dOut = <<>>
    /\ DeltaIdle

parseIdle == <<mode, refs, head, res_bytes, rpos, todo, objects, printed,
               pool, refsLeft, files, dirs, scen, hist, dIn>>

\* get_objects builds the body of its request.
BuildRequest ==
    /\ mode = "parse" /\ pc = "start" /\ dIn.kind = "wants"
    /\ dOut' = RequestBody(dIn.hashes)
    /\ pc' = "done"
    /\ UNCHANGED parseIdle

\* checkout_head decodes a tree payload.
ParseTree ==
    /\ mode = "parse" /\ pc = "start" /\ dIn.kind = "tree"
    /\ dOut' = parse_tree_object(TreeBytes(dIn.entries))
    /\ pc' = "done"
    /\ UNCHANGED parseIdle

\* get_objects reads the header of an entry from the start of a stream.
ParseHeader ==
    /\ mode = "parse" /\ pc = "start" /\ dIn.kind = "header"
    /\ dOut' = parse_object_header(dIn.bytes, 1)
    /\ pc' = "done"
    /\ UNCHANGED parseIdle

NextParse == BuildRequest \/ ParseTree \/ ParseHeader

SpecParse == InitParse /\ [][NextParse]_vars

\* A pkt-line: four hex digits, the length of the line with them, and the
\* payload.
PktLine(payload) == Hex04(Len(payload) + 4) \o payload

\* The lines of len bytes each at the start of body that equal line.
LinesEqual(body, len, count, line) ==
    {k \in 0..(count - 1) : SubSeq(body, len * k + 1, len * (k + 1)) = line}

\* C13: the posted body holds exactly one pkt-line "want <oid>\n" for each
\* distinct oid of the list, whatever the order of the list, then the flush
\* "0000" and the pkt-line "done\n"; the prefix of a line is its length.
C13_OneWantPerOid ==
    (mode = "parse" /\ pc = "done" /\ dIn.kind = "wants") =>
        LET oids == {dIn.hashes[i] : i \in 1..Len(dIn.hashes)}
            n    == Cardinality(oids)
            len  == 4 + Len(S_want_sp) + 2 * OidLen + 1
        IN  /\ Len(dOut) = len * n + 4 + Len(PktLine(S_done_lf))
            /\ \A h \in oids :
                   Cardinality(LinesEqual(dOut, len, n,
                       PktLine(S_want_sp \o h \o <<10>>))) = 1
            /\ SubSeq(dOut, len * n + 1, Len(dOut))
                   = <<48, 48, 48, 48>> \o PktLine(S_done_lf)

\* The entries of a payload as a decoder has to return them.
Decoded(entries) ==
    [k \in 1..Len(entries) |->
        TreeEntry(entries[k].mode, entries[k].name, Hex(entries[k].sha))]

\* C19: for every well-formed tree payload parse_tree_object returns the
\* payload's entries (mode, name, 40-hex oid) in order, one per entry, also
\* when an oid holds 0x00 bytes, for inner and last entries and for names
\* of any length.
C19_TreeDecodedExactly ==
    (mode = "parse" /\ pc = "done" /\ dIn.kind = "tree") =>
        /\ dOut.ok
        /\ dOut.entries = Decoded(dIn.entries)

\* The number of continuation bytes parse_object_header has to read from
\* the stream s: none when the high bit of the first byte is clear, else
\* through the first one whose high bit is clear, or all there are.
ContinuationBytes(s) ==
    IF Len(s) = 0 \/ s[1] < 128 THEN 0
    ELSE LET stops == {i \in 2..Len(s) : s[i] < 128}
         IN  IF stops = {} THEN Len(s) - 1
             ELSE (CHOOSE i \in stops : \A j \in stops : i <= j) - 1

\* Bit b of the number n.
BitAt(n, b) == (n \div Pow(2, b)) % 2

\* C20: parse_object_header returns the type in bits 6-4 of the first byte
\* and the size whose low four bits are those of the first byte and whose
\* bits 4+7i .. 10+7i are the low seven bits of the i-th continuation byte;
\* it reads exactly the continuation bytes (none without the high bit of
\* the first byte, none after one with the high bit clear) and ends also
\* when the stream ends inside the header.
C20_HeaderDecoded ==
    (mode = "parse" /\ pc = "done" /\ dIn.kind = "header") =>
        LET s == dIn.bytes
            n == ContinuationBytes(s)
        IN  /\ Len(s) > 0 => dOut.type = (s[1] \div 16) % 8
            /\ Len(s) > 0 => dOut.size % 16 = s[1] % 16
            /\ \A i \in 0..(n - 1) : \A b \in 0..6 :
                   BitAt(dOut.size, 4 + 7 * i + b) = BitAt(s[2 + i], b)
            /\ dOut.size < Pow(2, 4 + 7 * n)
            /\ dOut.pos = IF Len(s) = 0 THEN 1 ELSE 2 + n

\* A header of three bytes has been decoded: two continuation bytes, the
\* second with the high bit clear, and a size above 2^11.
C20_Witness ==
    /\ mode = "parse" /\ pc = "done" /\ dIn.kind = "header"
    /\ dIn.bytes = <<149, 255, 53>>
    /\ dOut.type = 1
    /\ dOut.size = 5 + 127 * 16 + 53 * 2048
    /\ dOut.pos = 4

====
